---------------------------- MODULE Spec2Model ----------------------------
(***************************************************************************)
(* LuckyPot: the pot store (class Database of lucky_pot.py), the enter-pot *)
(* and force-end-pot command handlers, the reconciliation tick             *)
(* (process_stackcoin_requests) and the scheduled daily draw, run as       *)
(* coroutines of one asyncio event loop.  The sqlite3 calls block, so the  *)
(* code between two awaits is one atomic step; every await of a ledger     *)
(* call is a point where the other coroutines may run.                     *)
(*                                                                         *)
(* Time is counted in whole hours.  A ledger call is modelled by the step  *)
(* in which its answer comes back (its outcome is an input of that step).  *)
(* Of the timestamp columns only pot_entries.created_at is ever compared   *)
(* with the clock; pots.created_at, pots.won_at and                        *)
(* pot_entries.confirmed_at are kept as NULL or set.                       *)
(***************************************************************************)
EXTENDS Integers, Sequences, FiniteSets, Bags, TLC

\* ------------------------------------------------------------- bounds
MaxTime == 2
MaxEntries == 2
MaxPots == 2
MaxInFlight == 2

\* -------------------------------------------------- program constants
EntryCost == 5
CooldownHours == 6
ExpiryHours == 1

Users == {"A", "B"}
Guilds == {"G", "H"}
GuildOrder == <<"G", "H">>
Payers == {"tick", "draw", "force"}

\* SQL NULL, and the value of a timestamp column that has been set.
NULL == "NULL"
Stamp == "datetime('now')"

VARIABLES
    now,          \* the store's clock (datetime('now')), in hours
    pots,         \* table pots: row pot_id is pots[pot_id]
    pot_entries,  \* table pot_entries: row entry_id is pot_entries[entry_id]
    users,        \* table users, keyed by <<discord_id, guild_id>>
    requests,     \* the ledger's debit requests: requests[id] is the status
    sends,        \* the ledger's successful funds-sends (a bag; pot_id and by: who paid what)
    enter,        \* the enter-pot invocations awaiting their debit request (a bag)
    pay,          \* per payer: the send_winnings_to_user call in flight
    draw,         \* the daily draw coroutine
    tick,         \* the reconciliation coroutine
    reply         \* what the last store query made on its own returned

vars == <<now, pots, pot_entries, users, requests, sends, enter, pay, draw, tick,
         reply>>

\* ------------------------------------------------------------ helpers
RECURSIVE SumOver(_, _)
SumOver(f, S) == IF S = {} THEN 0
                 ELSE LET x == CHOOSE y \in S : TRUE
                      IN f[x] + SumOver(f, S \ {x})

\* The selected rowids of a table, in rowid order.
RECURSIVE SortedIds(_)
SortedIds(S) ==
    IF S = {} THEN <<>>
    ELSE LET least == CHOOSE i \in S : \A j \in S : i <= j
         IN <<least>> \o SortedIds(S \ {least})

\* str(request.id) and int(entry["stackcoin_request_id"])
str(n) == <<"str", n>>
int(s) == s[2]

\* ----------------------------------------------------- class Database
UserKeys == Users \X Guilds

NoUser == [exists |-> FALSE, total_wins |-> 0, total_winnings |-> 0]

get_or_create_user(us, discord_id, guild_id) ==
    IF us[<<discord_id, guild_id>>].exists THEN us
    ELSE [us EXCEPT ![<<discord_id, guild_id>>] =
              [exists |-> TRUE, total_wins |-> 0, total_winnings |-> 0]]

IsCurrent(p) == p.is_active /\ p.winner_id = NULL

\* get_current_pot with the NULL test on winner_id inverted.
get_current_pot_won(ps, guild_id) ==
    LET cand == {i \in DOMAIN ps : /\ ps[i].guild_id = guild_id
                                   /\ ps[i].is_active /\ ps[i].winner_id # NULL}
    IN IF cand = {} THEN 0 ELSE CHOOSE i \in cand : \A j \in cand : j <= i

\* The pot_id of the guild's current pot, 0 when there is none.  The clock
\* never runs backwards, so ORDER BY created_at DESC is rowid order, latest
\* first.
get_current_pot(ps, guild_id) ==
    LET cand == {i \in DOMAIN ps : ps[i].guild_id = guild_id /\ IsCurrent(ps[i])}
    IN IF cand = {} THEN 0 ELSE CHOOSE i \in cand : \A j \in cand : j <= i

create_new_pot(ps, guild_id) ==
    Append(ps, [guild_id |-> guild_id, winner_id |-> NULL, winning_amount |-> 0,
                created_at |-> Stamp, won_at |-> NULL, is_active |-> TRUE])

\* can_user_enter_pot without `pot_id = ?`: a cooldown across the guild's pots.
can_user_enter_pot_any_pot(es, discord_id, guild_id, pot_id, t) ==
    {i \in DOMAIN es :
        /\ es[i].discord_id = discord_id
        /\ es[i].guild_id = guild_id
        /\ es[i].created_at > t - CooldownHours
        /\ es[i].status \in {"confirmed", "unconfirmed"}} = {}

can_user_enter_pot(es, discord_id, guild_id, pot_id, t) ==
    {i \in DOMAIN es :
        /\ es[i].discord_id = discord_id
        /\ es[i].guild_id = guild_id
        /\ es[i].pot_id = pot_id
        /\ es[i].created_at > t - CooldownHours
        /\ es[i].status \in {"confirmed", "unconfirmed"}} = {}

\* create_pot_entry that also writes the new row's status into the rows the
\* pot already holds.
create_pot_entry_all_rows(es, pot_id, discord_id, guild_id, stackcoin_request_id, is_instant_win, t) ==
    Append([i \in DOMAIN es |->
               IF es[i].pot_id = pot_id
               THEN [es[i] EXCEPT !.status = IF is_instant_win THEN "instant_win"
                                             ELSE "unconfirmed"]
               ELSE es[i]],
           [pot_id |-> pot_id, discord_id |-> discord_id, guild_id |-> guild_id,
            amount |-> EntryCost,
            status |-> IF is_instant_win THEN "instant_win" ELSE "unconfirmed",
            stackcoin_request_id |-> stackcoin_request_id,
            created_at |-> t, confirmed_at |-> NULL])

create_pot_entry(es, pot_id, discord_id, guild_id, stackcoin_request_id, is_instant_win, t) ==
    Append(es, [pot_id |-> pot_id, discord_id |-> discord_id, guild_id |-> guild_id,
                amount |-> EntryCost,
                status |-> IF is_instant_win THEN "instant_win" ELSE "unconfirmed",
                stackcoin_request_id |-> stackcoin_request_id,
                created_at |-> t, confirmed_at |-> NULL])

\* The aggregate queries with status IN ('confirmed', 'instant_win').
Counted_with_instant_win(es, pot_id) ==
    {i \in DOMAIN es : es[i].pot_id = pot_id /\ es[i].status \in {"confirmed", "instant_win"}}

\* The entries get_pot_status and get_active_pot_participants aggregate.
Counted(es, pot_id) ==
    {i \in DOMAIN es : es[i].pot_id = pot_id /\ es[i].status = "confirmed"}

\* GROUP BY discord_id: one row per user with a counted entry.
participants_of(es, pot_id) ==
    LET c == Counted(es, pot_id)
        who == {es[i].discord_id : i \in c}
    IN {[discord_id |-> u,
         entry_count |-> Cardinality({i \in c : es[i].discord_id = u}),
         total_amount |-> SumOver([i \in DOMAIN es |-> es[i].amount],
                                  {i \in c : es[i].discord_id = u})] : u \in who}

get_pot_status(ps, es, guild_id) ==
    LET pot == get_current_pot(ps, guild_id)
    IN IF pot = 0
       THEN [exists |-> FALSE, pot_id |-> 0, total_amount |-> 0,
             participant_count |-> 0, participants |-> {}]
       ELSE [exists |-> TRUE, pot_id |-> pot,
             total_amount |-> SumOver([i \in DOMAIN es |-> es[i].amount], Counted(es, pot)),
             participant_count |-> Cardinality(participants_of(es, pot)),
             participants |-> participants_of(es, pot)]

confirm_entry(es, entry_id) ==
    [es EXCEPT ![entry_id].status = "confirmed", ![entry_id].confirmed_at = Stamp]

\* deny_entry whose UPDATE matches no row.
deny_entry_none(es, entry_id) == es

deny_entry(es, entry_id) ==
    [es EXCEPT ![entry_id].status = "denied"]

\* A fetched row: the entry's id and the status it had when fetched (the other
\* columns the callers read never change after the insert).
Row(es, i) == [entry_id |-> i, status |-> es[i].status]

RowsOf(es, ids) == [k \in DOMAIN ids |-> Row(es, ids[k])]

\* get_unconfirmed_entries that also returns the confirmed entries.
get_unconfirmed_entries_again(es, t) ==
    RowsOf(es, SortedIds({i \in DOMAIN es :
                             /\ es[i].status \in {"unconfirmed", "confirmed"}
                             /\ es[i].created_at > t - ExpiryHours}))

\* created_at is the clock at insert and the clock never runs backwards, so
\* rowid order is created_at order.
get_unconfirmed_entries(es, t) ==
    RowsOf(es, SortedIds({i \in DOMAIN es : /\ es[i].status = "unconfirmed"
                                             /\ es[i].created_at > t - ExpiryHours}))

\* get_expired_entries without the test on status.
get_expired_entries_any(es, t) ==
    RowsOf(es, SortedIds({i \in DOMAIN es : es[i].created_at <= t - ExpiryHours}))

\* get_expired_entries with `<` for `<=`.
get_expired_entries_older(es, t) ==
    RowsOf(es, SortedIds({i \in DOMAIN es : /\ es[i].status = "unconfirmed"
                                             /\ es[i].created_at < t - ExpiryHours}))

get_expired_entries(es, t) ==
    RowsOf(es, SortedIds({i \in DOMAIN es : /\ es[i].status = "unconfirmed"
                                             /\ es[i].created_at <= t - ExpiryHours}))

\* get_active_pot_participants without `AND pe.status = 'confirmed'`.
get_active_pot_participants_any_status(ps, es, guild_id) ==
    LET pot == get_current_pot(ps, guild_id)
        who == {es[i].discord_id : i \in {j \in DOMAIN es : es[j].pot_id = pot}}
    IN IF pot = 0 THEN {}
       ELSE {[discord_id |-> u,
              entries |-> Cardinality({i \in DOMAIN es : /\ es[i].pot_id = pot
                                                         /\ es[i].discord_id = u})] :
                u \in who}

get_active_pot_participants(ps, es, guild_id) ==
    LET pot == get_current_pot(ps, guild_id)
    IN IF pot = 0 THEN {}
       ELSE {[discord_id |-> p.discord_id, entries |-> p.entry_count] :
                p \in participants_of(es, pot)}

\* win_pot, first UPDATE, without `is_active = TRUE AND winner_id IS NULL`.
win_pot_pots_every_pot(ps, guild_id, winner_id, winning_amount) ==
    [i \in DOMAIN ps |->
        IF ps[i].guild_id = guild_id
        THEN [ps[i] EXCEPT !.winner_id = winner_id, !.winning_amount = winning_amount,
                           !.won_at = Stamp, !.is_active = FALSE]
        ELSE ps[i]]

\* win_pot, first UPDATE, without `winner_id = ?`.
win_pot_pots_no_winner(ps, guild_id, winner_id, winning_amount) ==
    [i \in DOMAIN ps |->
        IF ps[i].guild_id = guild_id /\ IsCurrent(ps[i])
        THEN [ps[i] EXCEPT !.winning_amount = winning_amount,
                           !.won_at = Stamp, !.is_active = FALSE]
        ELSE ps[i]]

\* win_pot, first UPDATE, without `is_active = FALSE`.
win_pot_pots_still_active(ps, guild_id, winner_id, winning_amount) ==
    [i \in DOMAIN ps |->
        IF ps[i].guild_id = guild_id /\ IsCurrent(ps[i])
        THEN [ps[i] EXCEPT !.winner_id = winner_id, !.winning_amount = winning_amount,
                           !.won_at = Stamp]
        ELSE ps[i]]

\* win_pot, first UPDATE: every current pot of the guild is closed.
win_pot_pots(ps, guild_id, winner_id, winning_amount) ==
    [i \in DOMAIN ps |->
        IF ps[i].guild_id = guild_id /\ IsCurrent(ps[i])
        THEN [ps[i] EXCEPT !.winner_id = winner_id, !.winning_amount = winning_amount,
                           !.won_at = Stamp, !.is_active = FALSE]
        ELSE ps[i]]

\* win_pot, second UPDATE: the winner's row, whatever the first one matched.
win_pot_users(us, guild_id, winner_id, winning_amount) ==
    IF us[<<winner_id, guild_id>>].exists
    THEN [us EXCEPT ![<<winner_id, guild_id>>].total_wins = @ + 1,
                    ![<<winner_id, guild_id>>].total_winnings = @ + winning_amount]
    ELSE us

get_all_active_guilds(ps) ==
    LET ids == SortedIds({k \in DOMAIN GuildOrder :
                             \E i \in DOMAIN ps : /\ ps[i].guild_id = GuildOrder[k]
                                                   /\ ps[i].is_active})
    IN [k \in DOMAIN ids |-> GuildOrder[ids[k]]]

\* ------------------------------------------------------------- ledger
Accepted(rq) == {r \in DOMAIN rq : rq[r] = "accepted"}

\* What a successful stackcoin_requests(status="accepted") call lists.
accepted_list(rq) == {str(r) : r \in Accepted(rq)}

\* stackcoin_deny_request, when the ledger denies the request.
ledger_deny(rq, r) == [rq EXCEPT ![r] = "denied"]

\* ------------------------------------------------------ initial state
PayIdle == [pc |-> "idle", guild_id |-> NULL, winner_id |-> NULL,
            winning_amount |-> 0, pot_id |-> 0]

DrawIdle == [pc |-> "idle", queue |-> <<>>]

NoReply == [kind |-> "none"]

\* pc and queue are the coroutine's position and the rows it still has to
\* process.  The other fields are history of the tick under way (or, while
\* it sleeps, of the last one): `young` the unconfirmed entries at most an
\* hour old at the fetch, `iw` the
\* entries flagged instant_win, less than an hour old, whose request the
\* ledger had accepted at the fetch, `listed` every request id a poll of this
\* tick returned, `own` the entries whose own poll returned while the ledger
\* held their request accepted, `deny_ok` the entries whose deny call
\* succeeded.
TickIdle == [pc |-> "sleep", queue |-> <<>>, young |-> {}, iw |-> {},
             listed |-> {}, own |-> {}, deny_ok |-> {}]

Init ==
    /\ now = 0
    /\ pots = <<>>
    /\ pot_entries = <<>>
    /\ users = [k \in UserKeys |-> NoUser]
    /\ requests = <<>>
    /\ sends = EmptyBag
    /\ enter = EmptyBag
    /\ pay = [p \in Payers |-> PayIdle]
    /\ draw = DrawIdle
    /\ tick = TickIdle
    /\ reply = NoReply

\* ------------------------------------------------- send_winnings_to_user
\* random.choice(weighted_participants): each participant's id is in the list
\* once per entry, so every participant with an entry can be drawn.
\* The list built without `* p["entries"]`: every participant once.
weighted_participants_once(participants) ==
    [u \in {p.discord_id : p \in participants} |-> 1]

weighted_participants(participants) ==
    [u \in {p.discord_id : p \in participants} |->
        (CHOOSE p \in participants : p.discord_id = u).entries]

Drawable(participants) ==
    {u \in DOMAIN weighted_participants(participants) :
        weighted_participants(participants)[u] > 0}

Sending(guild_id, winner_id, winning_amount, pot_id) ==
    [pc |-> "send", guild_id |-> guild_id, winner_id |-> winner_id,
     winning_amount |-> winning_amount, pot_id |-> pot_id]

\* The caller's `if await send_winnings_to_user(...): db.win_pot(...)`.
pots_after_send(ok, ps, guild_id, winner_id, winning_amount) ==
    IF ok THEN win_pot_pots(ps, guild_id, winner_id, winning_amount) ELSE ps

users_after_send(ok, us, guild_id, winner_id, winning_amount) ==
    IF ok THEN win_pot_users(us, guild_id, winner_id, winning_amount) ELSE us

sends_after_send(ok, log, p) ==
    IF ok THEN log (+) SetToBag({[to |-> pay[p].winner_id,
                                  amount |-> pay[p].winning_amount,
                                  pot_id |-> pay[p].pot_id, by |-> p]})
    ELSE log

\* ------------------------------------------ process_stackcoin_requests
\* The expiry pass starts: get_expired_entries, then the first deny call.
start_expiry(tk, es, t) ==
    IF get_expired_entries(es, t) = <<>> THEN [tk EXCEPT !.pc = "sleep", !.queue = <<>>]
    ELSE [tk EXCEPT !.pc = "deny", !.queue = get_expired_entries(es, t)]

\* The confirmation loop moves on to its next entry, or the pass ends.
next_entry(tk, es, t) ==
    IF Tail(tk.queue) # <<>> THEN [tk EXCEPT !.pc = "poll", !.queue = Tail(tk.queue)]
    ELSE start_expiry(tk, es, t)

\* The loop over the listed requests with its `break` outside the `if`: only
\* the first request listed is compared.
matched_first(listing, entry) ==
    /\ listing # {}
    /\ entry.stackcoin_request_id = CHOOSE x \in listing : \A y \in listing : int(x) <= int(y)

\* `if str(request.id) == entry["stackcoin_request_id"]` for some listed request.
matched(listing, entry) == entry.stackcoin_request_id \in listing

\* The tick begins: get_unconfirmed_entries, then the first poll.
TickStart ==
    /\ tick.pc = "sleep"
    /\ LET tk == [TickIdle EXCEPT
                    !.young = {i \in DOMAIN pot_entries :
                                  /\ pot_entries[i].status = "unconfirmed"
                                  /\ pot_entries[i].created_at >= now - ExpiryHours},
                    !.iw = {i \in DOMAIN pot_entries :
                                  /\ pot_entries[i].status = "instant_win"
                                  /\ pot_entries[i].created_at > now - ExpiryHours
                                  /\ int(pot_entries[i].stackcoin_request_id)
                                         \in Accepted(requests)}]
       IN tick' = IF get_unconfirmed_entries(pot_entries, now) = <<>>
                  THEN start_expiry(tk, pot_entries, now)
                  ELSE [tk EXCEPT !.pc = "poll",
                                  !.queue = get_unconfirmed_entries(pot_entries, now)]
    /\ UNCHANGED <<now, pots, pot_entries, users, requests, sends, enter, pay, draw, reply>>

\* The per-entry `try` left out: a poll that raises ends the whole pass,
\* through the outer handler of process_stackcoin_requests.
TickPollReturns_outer_handler(ok) ==
    /\ tick.pc = "poll"
    /\ LET row == Head(tick.queue)
           e == pot_entries[row.entry_id]
           listing == IF ok THEN accepted_list(requests) ELSE {}
           es == IF matched(listing, e)
                 THEN confirm_entry(pot_entries, row.entry_id) ELSE pot_entries
           tk == [tick EXCEPT
                    !.listed = @ \cup listing,
                    !.own = IF ok /\ int(e.stackcoin_request_id) \in Accepted(requests)
                            THEN @ \cup {row.entry_id} ELSE @]
       IN /\ pot_entries' = es
          /\ tick' = IF ok THEN next_entry(tk, es, now)
                     ELSE [tk EXCEPT !.pc = "sleep", !.queue = <<>>]
          /\ pay' = pay
    /\ UNCHANGED <<now, pots, users, requests, sends, enter, draw, reply>>

\* The poll made for the entry at the head of the queue returns.
TickPollReturns(ok) ==
    /\ tick.pc = "poll"
    /\ LET row == Head(tick.queue)
           e == pot_entries[row.entry_id]
           listing == IF ok THEN accepted_list(requests) ELSE {}
           es == IF matched(listing, e)
                 THEN confirm_entry(pot_entries, row.entry_id) ELSE pot_entries
           status == get_pot_status(pots, es, pots[e.pot_id].guild_id)
           tk == [tick EXCEPT
                    !.listed = @ \cup listing,
                    !.own = IF ok /\ int(e.stackcoin_request_id) \in Accepted(requests)
                            THEN @ \cup {row.entry_id} ELSE @]
       IN /\ pot_entries' = es
          /\ IF matched(listing, e) /\ row.status = "instant_win" /\ status.exists
             THEN /\ tick' = [tk EXCEPT !.pc = "payout"]
                  /\ pay' = [pay EXCEPT !["tick"] =
                                Sending(pots[e.pot_id].guild_id, e.discord_id,
                                        status.total_amount, status.pot_id)]
             ELSE /\ tick' = next_entry(tk, es, now)
                  /\ pay' = pay
    /\ UNCHANGED <<now, pots, users, requests, sends, enter, draw, reply>>

\* The deny call made for the entry at the head of the queue returns: the
\* ledger denied the request (it denies pending requests only), or it
\* answered with an error, or the call raised.  The answer itself is never
\* looked at: deny_entry runs unless the call raised.
TickDenyReturns(answer) ==
    /\ tick.pc = "deny"
    /\ LET row == Head(tick.queue)
           r == int(pot_entries[row.entry_id].stackcoin_request_id)
           tk == [tick EXCEPT !.deny_ok = IF answer = "denied" THEN @ \cup {row.entry_id}
                                          ELSE @]
       IN /\ answer = "denied" => requests[r] = "pending"
          /\ requests' = IF answer = "denied" THEN ledger_deny(requests, r) ELSE requests
          /\ pot_entries' = IF answer # "raised" THEN deny_entry(pot_entries, row.entry_id)
                            ELSE pot_entries
          /\ tick' = IF Tail(tick.queue) # <<>> THEN [tk EXCEPT !.queue = Tail(tick.queue)]
                     ELSE [tk EXCEPT !.pc = "sleep", !.queue = <<>>]
    /\ UNCHANGED <<now, pots, users, sends, enter, pay, draw, reply>>

\* ------------------------------------------------------ daily_pot_draw
Eligible(ps, es, guild_id) ==
    /\ get_pot_status(ps, es, guild_id).exists
    /\ get_pot_status(ps, es, guild_id).participant_count # 0

\* The loop over all_guilds runs on from `queue` without suspending: guilds
\* are skipped (not eligible, or random.random() >= 0.4) until one is drawn
\* and its send is awaited, or the list ends.
draw_loop(ps, es, queue) ==
    \E k \in 1..(Len(queue) + 1) :
        IF k > Len(queue)
        THEN /\ draw' = DrawIdle
             /\ pay' = [pay EXCEPT !["draw"] = PayIdle]
        ELSE /\ Eligible(ps, es, queue[k])
             /\ \E winner_id \in Drawable(get_active_pot_participants(ps, es, queue[k])) :
                    pay' = [pay EXCEPT !["draw"] =
                              Sending(queue[k], winner_id,
                                      get_pot_status(ps, es, queue[k]).total_amount,
                                      get_pot_status(ps, es, queue[k]).pot_id)]
             /\ draw' = [pc |-> "payout", queue |-> SubSeq(queue, k + 1, Len(queue))]

\* schedule.run_pending() starts the draw between two ticks.
DrawStart ==
    /\ draw.pc = "idle"
    /\ tick.pc = "sleep"
    /\ get_all_active_guilds(pots) # <<>>
    /\ draw_loop(pots, pot_entries, get_all_active_guilds(pots))
    /\ UNCHANGED <<now, pots, pot_entries, users, requests, sends, enter, tick, reply>>

\* --------------------------------------------------- ForceEndPot.invoke
ForceStart(guild_id) ==
    /\ pay["force"].pc = "idle"
    /\ Eligible(pots, pot_entries, guild_id)
    /\ \E winner_id \in Drawable(get_active_pot_participants(pots, pot_entries, guild_id)) :
           pay' = [pay EXCEPT !["force"] =
                     Sending(guild_id, winner_id,
                             get_pot_status(pots, pot_entries, guild_id).total_amount,
                             get_pot_status(pots, pot_entries, guild_id).pot_id)]
    /\ UNCHANGED <<now, pots, pot_entries, users, requests, sends, enter, draw, tick, reply>>

\* ------------------------------------------------ the payers' next steps
\* What payer p does once its payout is over: the daily draw goes on with
\* its next guild, the tick with its next entry, the command handler ends.
resume(p, ps, es) ==
    IF p = "draw" THEN /\ draw_loop(ps, es, draw.queue)
                       /\ tick' = tick
    ELSE IF p = "tick" THEN /\ tick' = next_entry(tick, es, now)
                            /\ pay' = [pay EXCEPT !["tick"] = PayIdle]
                            /\ draw' = draw
    ELSE /\ pay' = [pay EXCEPT !["force"] = PayIdle]
         /\ draw' = draw
         /\ tick' = tick

\* send_winnings_to_user returns to payer p.
SendReturns(p, ok) ==
    /\ pay[p].pc = "send"
    /\ sends' = sends_after_send(ok, sends, p)
    /\ pots' = pots_after_send(ok, pots, pay[p].guild_id, pay[p].winner_id,
                               pay[p].winning_amount)
    /\ users' = users_after_send(ok, users, pay[p].guild_id, pay[p].winner_id,
                                 pay[p].winning_amount)
    /\ IF ok \/ p = "force"
       THEN /\ pay' = [pay EXCEPT ![p].pc = IF ok THEN "announce" ELSE "failed"]
            /\ UNCHANGED <<draw, tick>>
       ELSE resume(p, pots, pot_entries)
    /\ UNCHANGED <<now, pot_entries, requests, enter, reply>>

\* announce_to_guild returns to payer p (and, in force-end-pot, the reply
\* to the command is sent: after a failed send that reply is all that is
\* left to do).
AnnounceReturns(p) ==
    /\ pay[p].pc \in {"announce", "failed"}
    /\ resume(p, pots, pot_entries)
    /\ UNCHANGED <<now, pots, pot_entries, users, requests, sends, enter, reply>>

\* ------------------------------------------------------ EnterPot.invoke
\* From the invocation to the await of the debit request: the account
\* lookup returns, then the user row, the current pot and the cooldown check.
\* EnterPot.invoke with db.get_or_create_user and the pot lookup moved before
\* the check of what the account lookup returned.
enter_pot_user_first(discord_id, guild_id, lookup) ==
    LET current_pot == get_current_pot(pots, guild_id)
        ps == IF current_pot = 0 THEN create_new_pot(pots, guild_id) ELSE pots
        pot_id == IF current_pot = 0 THEN Len(ps) ELSE current_pot
    IN /\ Len(ps) <= MaxPots
       /\ users' = get_or_create_user(users, discord_id, guild_id)
       /\ pots' = ps
       /\ enter' = IF /\ can_user_enter_pot(pot_entries, discord_id, guild_id, pot_id, now)
                      /\ lookup = "found"
                   THEN enter (+) SetToBag({[discord_id |-> discord_id,
                                             guild_id |-> guild_id,
                                             pot_id |-> pot_id]})
                   ELSE enter

\* EnterPot.invoke without the return after a failed cooldown check.
enter_pot_no_cooldown(discord_id, guild_id, lookup) ==
    IF lookup \in {"failed", "none"}
    THEN UNCHANGED <<users, pots, enter>>
    ELSE LET current_pot == get_current_pot(pots, guild_id)
             ps == IF current_pot = 0 THEN create_new_pot(pots, guild_id) ELSE pots
             pot_id == IF current_pot = 0 THEN Len(ps) ELSE current_pot
         IN /\ Len(ps) <= MaxPots
            /\ users' = get_or_create_user(users, discord_id, guild_id)
            /\ pots' = ps
            /\ enter' = IF lookup = "found"
                        THEN enter (+) SetToBag({[discord_id |-> discord_id,
                                                  guild_id |-> guild_id,
                                                  pot_id |-> pot_id]})
                        ELSE enter

enter_pot(discord_id, guild_id, lookup) ==
    IF lookup \in {"failed", "none"}
    THEN UNCHANGED <<users, pots, enter>>
    ELSE LET current_pot == get_current_pot(pots, guild_id)
             ps == IF current_pot = 0 THEN create_new_pot(pots, guild_id) ELSE pots
             pot_id == IF current_pot = 0 THEN Len(ps) ELSE current_pot
         IN /\ Len(ps) <= MaxPots
            /\ users' = get_or_create_user(users, discord_id, guild_id)
            /\ pots' = ps
            /\ enter' = IF /\ can_user_enter_pot(pot_entries, discord_id, guild_id,
                                                 pot_id, now)
                           /\ lookup = "found"
                        THEN enter (+) SetToBag({[discord_id |-> discord_id,
                                                  guild_id |-> guild_id,
                                                  pot_id |-> pot_id]})
                        ELSE enter

EnterPot(discord_id, guild_id, lookup) ==
    /\ BagCardinality(enter) < MaxInFlight
    /\ Len(pot_entries) + BagCardinality(enter) < MaxEntries
    /\ enter_pot(discord_id, guild_id, lookup)
    /\ UNCHANGED <<now, pot_entries, requests, sends, pay, draw, tick, reply>>

\* The instant win settled at admission: win_pot is called as soon as the
\* roll hits.
EnterRequestReturns_pays_at_once(h, ok, instant_win) ==
    /\ BagIn(h, enter)
    /\ requests' = IF ok THEN Append(requests, "pending") ELSE requests
    /\ pot_entries' = IF ok
                      THEN create_pot_entry(pot_entries, h.pot_id, h.discord_id,
                                            h.guild_id, str(Len(requests) + 1),
                                            instant_win, now)
                      ELSE pot_entries
    /\ enter' = enter (-) SetToBag({h})
    /\ pots' = IF ok /\ instant_win
               THEN win_pot_pots(pots, h.guild_id, h.discord_id, EntryCost) ELSE pots
    /\ users' = IF ok /\ instant_win
                THEN win_pot_users(users, h.guild_id, h.discord_id, EntryCost) ELSE users
    /\ UNCHANGED <<now, sends, pay, draw, tick, reply>>

\* The entry inserted whatever stackcoin_create_request returned.
EnterRequestReturns_insert_always(h, ok, instant_win) ==
    /\ BagIn(h, enter)
    /\ requests' = IF ok THEN Append(requests, "pending") ELSE requests
    /\ pot_entries' = create_pot_entry(pot_entries, h.pot_id, h.discord_id, h.guild_id,
                                       str(Len(requests) + 1), instant_win, now)
    /\ enter' = enter (-) SetToBag({h})
    /\ UNCHANGED <<now, pots, users, sends, pay, draw, tick, reply>>

\* stackcoin_create_request returns to invocation h; on success the entry is
\* inserted.
EnterRequestReturns(h, ok, instant_win) ==
    /\ BagIn(h, enter)
    /\ requests' = IF ok THEN Append(requests, "pending") ELSE requests
    /\ pot_entries' = IF ok
                      THEN create_pot_entry(pot_entries, h.pot_id, h.discord_id,
                                            h.guild_id, str(Len(requests) + 1),
                                            instant_win, now)
                      ELSE pot_entries
    /\ enter' = enter (-) SetToBag({h})
    /\ UNCHANGED <<now, pots, users, sends, pay, draw, tick, reply>>

\* -------------------------------------------------------- environment
\* The entrant accepts the debit request on the ledger.
UserAccepts(r) ==
    /\ requests[r] = "pending"
    /\ requests' = [requests EXCEPT ![r] = "accepted"]
    /\ UNCHANGED <<now, pots, pot_entries, users, sends, enter, pay, draw, tick, reply>>

Advance ==
    /\ now < MaxTime
    /\ now' = now + 1
    /\ UNCHANGED <<pots, pot_entries, users, requests, sends, enter, pay, draw, tick, reply>>

Next ==
    \/ \E u \in Users, g \in Guilds, lookup \in {"failed", "none", "no_id", "found"} :
          EnterPot(u, g, lookup)
    \/ \E h \in BagToSet(enter), ok \in BOOLEAN, iw \in BOOLEAN :
          EnterRequestReturns(h, ok, iw)
    \/ TickStart
    \/ \E ok \in BOOLEAN : TickPollReturns(ok)
    \/ \E answer \in {"denied", "error", "raised"} : TickDenyReturns(answer)
    \/ DrawStart
    \/ \E g \in Guilds : ForceStart(g)
    \/ \E p \in Payers, ok \in BOOLEAN : SendReturns(p, ok)
    \/ \E p \in Payers : AnnounceReturns(p)
    \/ \E r \in DOMAIN requests : UserAccepts(r)
    \/ Advance

Spec == Init /\ [][Next]_vars

\* ------------------------------------------ the store's queries alone
\* The queries of the store change nothing, so they are left out of Next.
\* QuerySpec applies them to stores drawn from a bounded set: up to
\* MaxQueryEntries entries of any status and of the ages that matter to the
\* cooldown, in one of three sets of pots.
MaxQueryEntries == 3

QueryNow == CooldownHours + 1
QueryAges == {0, CooldownHours - 1, CooldownHours, CooldownHours + 1}
Statuses == {"unconfirmed", "confirmed", "instant_win", "denied"}

OpenPot(guild_id) ==
    [guild_id |-> guild_id, winner_id |-> NULL, winning_amount |-> 0,
     created_at |-> Stamp, won_at |-> NULL, is_active |-> TRUE]

WonPot(guild_id, winner_id) ==
    [guild_id |-> guild_id, winner_id |-> winner_id, winning_amount |-> EntryCost,
     created_at |-> Stamp, won_at |-> Stamp, is_active |-> FALSE]

QueryPots == {<<OpenPot("G")>>, <<WonPot("G", "A"), OpenPot("G")>>,
              <<OpenPot("G"), OpenPot("H")>>}

QueryEntry(ps, c, i) ==
    [pot_id |-> c.pot_id, discord_id |-> c.discord_id, guild_id |-> ps[c.pot_id].guild_id,
     amount |-> EntryCost, status |-> c.status, stackcoin_request_id |-> str(i),
     created_at |-> QueryNow - c.age,
     confirmed_at |-> IF c.status = "confirmed" THEN Stamp ELSE NULL]

\* Entries are in rowid order, oldest first; a pot that was won holds a
\* confirmed entry of its winner; users, requests and sends are what the
\* entries and pots imply.
InitQuery ==
    /\ now = QueryNow
    /\ pots \in QueryPots
    /\ \E n \in 0..MaxQueryEntries :
          \E c \in [1..n -> [discord_id : Users, pot_id : DOMAIN pots,
                             status : Statuses, age : QueryAges]] :
              /\ \A i, j \in 1..n : i < j => c[i].age >= c[j].age
              /\ \A q \in DOMAIN pots :
                     ~IsCurrent(pots[q])
                     => \E i \in 1..n : /\ c[i].pot_id = q
                                         /\ c[i].discord_id = pots[q].winner_id
                                         /\ c[i].status = "confirmed"
              /\ pot_entries = [i \in 1..n |-> QueryEntry(pots, c[i], i)]
    /\ users = [k \in UserKeys |->
                  LET won == {q \in DOMAIN pots : /\ pots[q].winner_id = k[1]
                                                  /\ pots[q].guild_id = k[2]}
                  IN [exists |-> \E i \in DOMAIN pot_entries :
                                    /\ pot_entries[i].discord_id = k[1]
                                    /\ pot_entries[i].guild_id = k[2],
                      total_wins |-> Cardinality(won),
                      total_winnings |-> Cardinality(won) * EntryCost]]
    /\ requests = [i \in DOMAIN pot_entries |->
                     CASE pot_entries[i].status = "confirmed" -> "accepted"
                       [] pot_entries[i].status = "denied" -> "denied"
                       [] OTHER -> "pending"]
    /\ sends = SetToBag({[to |-> pots[q].winner_id, amount |-> pots[q].winning_amount,
                          pot_id |-> q, by |-> "draw"] :
                             q \in {x \in DOMAIN pots : ~IsCurrent(pots[x])}})
    /\ enter = EmptyBag
    /\ pay = [p \in Payers |-> PayIdle]
    /\ draw = DrawIdle
    /\ tick = TickIdle
    /\ reply = NoReply

\* The orders in which `ORDER BY entry_count DESC, total_amount DESC` may
\* return the rows of participants_of: rows that tie come in any order.
participant_orders(es, pot_id) ==
    LET rows == participants_of(es, pot_id)
        n == Cardinality(rows)
    IN {seq \in [1..n -> rows] :
           /\ \A i, j \in 1..n : i # j => seq[i] # seq[j]
           /\ \A i \in 1..(n - 1) :
                  \/ seq[i].entry_count > seq[i + 1].entry_count
                  \/ /\ seq[i].entry_count = seq[i + 1].entry_count
                     /\ seq[i].total_amount >= seq[i + 1].total_amount}

\* PotStatus.invoke: db.get_pot_status(guild_id), as the command shows it.
\* (One query is made on each store drawn.)
PotStatusCommand(guild_id) ==
    /\ reply = NoReply
    /\ LET status == get_pot_status(pots, pot_entries, guild_id)
       IN \E seq \in participant_orders(pot_entries, status.pot_id) :
              reply' = [kind |-> "pot_status", guild_id |-> guild_id,
                        exists |-> status.exists, pot_id |-> status.pot_id,
                        total_amount |-> status.total_amount,
                        participant_count |-> status.participant_count,
                        participants |-> seq]
    /\ UNCHANGED <<now, pots, pot_entries, users, requests, sends, enter, pay, draw, tick>>

\* db.can_user_enter_pot(discord_id, guild_id, pot_id), on any arguments.
CheckCooldown(discord_id, guild_id, pot_id) ==
    /\ reply = NoReply
    /\ reply' = [kind |-> "cooldown", discord_id |-> discord_id, guild_id |-> guild_id,
                 pot_id |-> pot_id,
                 ok |-> can_user_enter_pot(pot_entries, discord_id, guild_id, pot_id, now)]
    /\ UNCHANGED <<now, pots, pot_entries, users, requests, sends, enter, pay, draw, tick>>

NextQuery ==
    \/ \E g \in Guilds : PotStatusCommand(g)
    \/ \E u \in Users, g \in Guilds, q \in DOMAIN pots : CheckCooldown(u, g, q)

QuerySpec == InitQuery /\ [][NextQuery]_vars

\* ------------------------------------------- one /enter-pot on a store
\* EnterPot.invoke on each store drawn, alone: `reply` keeps the command's
\* arguments, what the account lookup returned and the tables and the
\* ledger's requests as they were when the command was invoked.
EnterPotCommand(discord_id, guild_id, lookup) ==
    /\ reply = NoReply
    /\ enter_pot(discord_id, guild_id, lookup)
    /\ reply' = [kind |-> "enter_pot", discord_id |-> discord_id, guild_id |-> guild_id,
                 lookup |-> lookup, users |-> users, pots |-> pots,
                 pot_entries |-> pot_entries, requests |-> requests]
    /\ UNCHANGED <<now, pot_entries, requests, sends, pay, draw, tick>>

NextEnter ==
    \/ \E u \in Users, g \in Guilds, lookup \in {"failed", "none", "no_id", "found"} :
          EnterPotCommand(u, g, lookup)
    \/ \E h \in BagToSet(enter), ok \in BOOLEAN, iw \in BOOLEAN :
          EnterRequestReturns(h, ok, iw)

EnterSpec == InitQuery /\ [][NextEnter]_vars

\* --------------------------------------- one daily_pot_draw on a store
\* daily_pot_draw on each store drawn, alone, with a store call that may
\* raise.  `reply` keeps the guild list the run was started with.
DailyDraw ==
    /\ reply = NoReply
    /\ draw.pc = "idle"
    /\ get_all_active_guilds(pots) # <<>>
    /\ draw_loop(pots, pot_entries, get_all_active_guilds(pots))
    /\ reply' = [kind |-> "daily_draw", all_guilds |-> get_all_active_guilds(pots)]
    /\ UNCHANGED <<now, pots, pot_entries, users, requests, sends, enter, tick>>

\* The send for the guild drawn returns success and db.win_pot raises
\* (sqlite3.Error): the `try` encloses the `for`, so control leaves the loop
\* for the handler at the end of daily_pot_draw and the run is over.  The
\* guilds the loop had not reached stay in draw.queue.
DrawRaises ==
    /\ draw.pc = "payout"
    /\ pay["draw"].pc = "send"
    /\ sends' = sends_after_send(TRUE, sends, "draw")
    /\ draw' = [pc |-> "idle", queue |-> draw.queue]
    /\ pay' = [pay EXCEPT !["draw"] = PayIdle]
    /\ UNCHANGED <<now, pots, pot_entries, users, requests, enter, tick, reply>>

NextDraw ==
    \/ DailyDraw
    \/ \E ok \in BOOLEAN : SendReturns("draw", ok)
    \/ AnnounceReturns("draw")
    \/ DrawRaises

DrawSpec == InitQuery /\ [][NextDraw]_vars

\* ------------------------------------- get_accepted_requests (src/stk.py)
\* The ledger as one call of get_accepted_requests sees it: what each page
\* call returns (it raises, it returns something that is not a
\* RequestsResponse with requests, or it returns the page's requests,
\* possibly none) and the pagination block of the responses.
MaxPages == 3

PageAnswers(p) ==
    {[kind |-> "raises", requests |-> <<>>],
     [kind |-> "malformed", requests |-> <<>>],
     [kind |-> "page", requests |-> <<>>],
     [kind |-> "page", requests |-> <<10 * p + 1>>],
     [kind |-> "page", requests |-> <<10 * p + 1, 10 * p + 2>>]}

\* The call starts: all_requests = [], page = 1, and the first page call is
\* awaited.  The lucky pot's own state is that of a fresh start.
InitPages ==
    /\ now = 0
    /\ pots = <<>>
    /\ pot_entries = <<>>
    /\ users = [k \in UserKeys |-> NoUser]
    /\ requests = <<>>
    /\ sends = EmptyBag
    /\ enter = EmptyBag
    /\ pay = [p \in Payers |-> PayIdle]
    /\ draw = DrawIdle
    /\ tick = TickIdle
    /\ \E total_pages \in 1..MaxPages, pagination \in {"set", "unset"} :
          \E pages \in [1..MaxPages -> UNION {PageAnswers(p) : p \in 1..MaxPages}] :
              /\ \A p \in 1..MaxPages : pages[p] \in PageAnswers(p)
              /\ reply = [kind |-> "get_accepted_requests", pc |-> "call",
                          pages |-> pages, pagination |-> pagination,
                          total_pages |-> total_pages,
                          page |-> 1, all_requests |-> <<>>, calls |-> <<>>,
                          result |-> <<>>]

\* The page call raises: `except Exception` returns [] whatever was
\* collected.  This variant returns what was collected.
PageReturns_keeps_collected ==
    /\ reply.kind = "get_accepted_requests"
    /\ reply.pc = "call"
    /\ LET answer == reply.pages[reply.page]
           called == [reply EXCEPT !.calls = Append(@, reply.page)]
           collected == reply.all_requests \o answer.requests
       IN reply' =
             IF answer.kind = "raises"
             THEN [called EXCEPT !.pc = "done", !.result = reply.all_requests]
             ELSE IF answer.kind = "malformed" \/ answer.requests = <<>>
             THEN [called EXCEPT !.pc = "done", !.result = reply.all_requests]
             ELSE IF reply.pagination = "unset" \/ reply.page >= reply.total_pages
             THEN [called EXCEPT !.pc = "done", !.all_requests = collected,
                                 !.result = collected]
             ELSE [called EXCEPT !.all_requests = collected, !.page = @ + 1]
    /\ UNCHANGED <<now, pots, pot_entries, users, requests, sends, enter, pay, draw, tick>>

\* The awaited page call returns: one turn of the `while True` loop.
PageReturns ==
    /\ reply.kind = "get_accepted_requests"
    /\ reply.pc = "call"
    /\ LET answer == reply.pages[reply.page]
           called == [reply EXCEPT !.calls = Append(@, reply.page)]
           collected == reply.all_requests \o answer.requests
       IN reply' =
             IF answer.kind = "raises"
             THEN [called EXCEPT !.pc = "done", !.result = <<>>]
             ELSE IF answer.kind = "malformed" \/ answer.requests = <<>>
             THEN [called EXCEPT !.pc = "done", !.result = reply.all_requests]
             ELSE IF reply.pagination = "unset" \/ reply.page >= reply.total_pages
             THEN [called EXCEPT !.pc = "done", !.all_requests = collected,
                                 !.result = collected]
             ELSE [called EXCEPT !.all_requests = collected, !.page = @ + 1]
    /\ UNCHANGED <<now, pots, pot_entries, users, requests, sends, enter, pay, draw, tick>>

PagesSpec == InitPages /\ [][PageReturns]_vars

\* ----------------------------------------- the reconciliation loop alone
\* The runs in which no draw is due and no force-end-pot is invoked: users
\* enter, accept, the clock advances and background_tasks keeps ticking.
\* The fairness conditions say that the loop keeps running (after
\* asyncio.sleep(30) the next tick starts), that the clock advances, and that
\* ledger calls eventually succeed: the poll of a confirmation pass
\* eventually returns the accepted list, the deny call of an expiry pass
\* eventually returns an answer instead of raising.
NextTick ==
    \/ \E u \in Users, g \in Guilds, lookup \in {"failed", "none", "no_id", "found"} :
          EnterPot(u, g, lookup)
    \/ \E h \in BagToSet(enter), ok \in BOOLEAN, iw \in BOOLEAN :
          EnterRequestReturns(h, ok, iw)
    \/ TickStart
    \/ \E ok \in BOOLEAN : TickPollReturns(ok)
    \/ \E answer \in {"denied", "error", "raised"} : TickDenyReturns(answer)
    \/ \E r \in DOMAIN requests : UserAccepts(r)
    \/ Advance

TickSpec ==
    /\ Init
    /\ [][NextTick]_vars
    /\ WF_vars(TickStart)
    /\ WF_vars(Advance)
    /\ SF_vars(TickPollReturns(TRUE))
    /\ SF_vars(\E answer \in {"denied", "error"} : TickDenyReturns(answer))

\* ===================================================================
\* Claims
\* ===================================================================
CurrentPots(guild_id) ==
    {i \in DOMAIN pots : pots[i].guild_id = guild_id /\ IsCurrent(pots[i])}

\* The number of successful funds-sends made for pot pot_id.
SendsFor(pot_id) == SumOver(sends, {x \in DOMAIN sends : x.pot_id = pot_id})

Blocking == {"confirmed", "unconfirmed"}

\* C1: a pot is paid out at most once: at most one successful funds-send is
\* ever made for any one pot, whatever the interleaving of the daily draw,
\* force-end-pot and the tick's instant-win payout.
C1_PaidAtMostOnce == \A i \in DOMAIN pots : SendsFor(i) <= 1

\* C2: in every reachable state every guild has at most one pot row with
\* is_active = true and winner_id unset.
C2_OneCurrentPotPerGuild == \A g \in Guilds : Cardinality(CurrentPots(g)) <= 1

\* Two enter-pot invocations for one guild are in flight, the first of which
\* created the guild's pot.
C2_Witness ==
    \E g \in Guilds :
        /\ SumOver(enter, {h \in DOMAIN enter : h.guild_id = g}) >= 2
        /\ Cardinality(CurrentPots(g)) = 1

\* C3: no user has two entries in one pot of one guild, both unconfirmed or
\* confirmed, created less than 6 hours apart.
C3_NoDoubleEntry ==
    \A i, j \in DOMAIN pot_entries :
        (/\ i < j
         /\ pot_entries[i].discord_id = pot_entries[j].discord_id
         /\ pot_entries[i].guild_id = pot_entries[j].guild_id
         /\ pot_entries[i].pot_id = pot_entries[j].pot_id
         /\ pot_entries[i].status \in Blocking
         /\ pot_entries[j].status \in Blocking)
        => pot_entries[j].created_at - pot_entries[i].created_at >= CooldownHours

\* The step changes a pot row that exists, or a user's totals: what win_pot
\* does.
WinPotEffect ==
    \/ \E i \in DOMAIN pots : pots'[i] # pots[i]
    \/ \E k \in UserKeys : \/ users'[k].total_wins # users[k].total_wins
                           \/ users'[k].total_winnings # users[k].total_winnings

\* Payer p's funds-send returns in this step, with success or with failure.
SendSucceeds(p) == pay[p].pc = "send" /\ pay'[p] # pay[p] /\ sends' # sends
SendFails(p) == pay[p].pc = "send" /\ pay'[p] # pay[p] /\ sends' = sends

\* C4: win_pot takes effect only in a step in which a funds-send returned
\* success; a step in which payer p's send fails changes no pot row and no
\* user row, and the pot p read is then still active with no winner.
C4_WinOnlyAfterSend ==
    [][/\ WinPotEffect => \E p \in Payers : SendSucceeds(p)
       /\ \A p \in Payers :
              SendFails(p) => /\ pots' = pots
                              /\ users' = users
                              /\ IsCurrent(pots'[pay[p].pot_id])]_vars

Amounts(es) == [i \in DOMAIN es |-> es[i].amount]

\* C5: when a payer's funds-send succeeds and closes the pot the payer had
\* read, the amount sent and recorded as winning_amount is the sum of the
\* amounts of the entries of that pot that are confirmed at that moment.
C5_FullPotPaid ==
    [][\A p \in Payers :
          (SendSucceeds(p) /\ IsCurrent(pots[pay[p].pot_id]))
          => /\ ~IsCurrent(pots'[pay[p].pot_id])
             /\ pay[p].winning_amount =
                    SumOver(Amounts(pot_entries'), Counted(pot_entries', pay[p].pot_id))
             /\ pots'[pay[p].pot_id].winning_amount =
                    SumOver(Amounts(pot_entries'), Counted(pot_entries', pay[p].pot_id))]_vars

\* C6: no step removes an entry, and a step that changes an entry's status
\* takes it from unconfirmed to confirmed or from unconfirmed to denied.
C6_StatusMovesForward ==
    [][\A i \in DOMAIN pot_entries :
          /\ i \in DOMAIN pot_entries'
          /\ pot_entries'[i].status # pot_entries[i].status
             => /\ pot_entries[i].status = "unconfirmed"
                /\ pot_entries'[i].status \in {"confirmed", "denied"}]_vars

\* One entry has been confirmed and another denied, and the tick that did it
\* is over.
C6_Witness ==
    /\ tick.pc = "sleep"
    /\ \E i, j \in DOMAIN pot_entries : /\ pot_entries[i].status = "confirmed"
                                        /\ pot_entries[j].status = "denied"

\* The ids of the fetched rows the tick still has to process.
Queued == {tick.queue[k].entry_id : k \in DOMAIN tick.queue}

\* C7: an entry is confirmed at most once and causes at most one payout: a
\* confirmation pass polls only for entries that are unconfirmed, the tick
\* sends funds only for the entry it has just confirmed, and no step changes
\* an entry that is confirmed.
C7_ConfirmedOnce ==
    /\ [](tick.pc = "poll" => \A i \in Queued : pot_entries[i].status = "unconfirmed")
    /\ [](pay["tick"].pc # "idle" => tick.pc = "payout")
    /\ [][\A i \in DOMAIN pot_entries :
             pot_entries[i].status = "confirmed" => pot_entries'[i] = pot_entries[i]]_vars

\* A confirmation pass is polling while an entry confirmed by an earlier
\* tick has its request in the ledger's accepted list.
C7_Witness ==
    /\ tick.pc = "poll"
    /\ \E i \in DOMAIN pot_entries :
           /\ pot_entries[i].status = "confirmed"
           /\ i \notin tick.young
           /\ pot_entries[i].stackcoin_request_id \in accepted_list(requests)

\* The tick's confirmation pass is over.
PassOver == tick.pc \in {"deny", "sleep"}

\* C8 as stated: once the confirmation pass of a tick is over, every entry
\* that was unconfirmed and at most 1 hour old at the tick's fetch, and whose
\* request id was in a list the ledger returned during the tick, is
\* confirmed.
C8_AcceptedYoungConfirmed ==
    PassOver => \A i \in tick.young :
                   pot_entries[i].stackcoin_request_id \in tick.listed
                   => pot_entries[i].status = "confirmed"

\* C8: once the confirmation pass of a tick is over, every entry that the
\* tick fetched (it was unconfirmed and less than 1 hour old) and whose
\* request id was in the list the ledger returned to the poll made for that
\* entry is confirmed.
C8_OwnPollConfirms ==
    PassOver => \A i \in tick.own : pot_entries[i].status = "confirmed"

\* A pass is over in which the poll made for an entry listed its request.
C8_Witness ==
    /\ PassOver
    /\ \E i \in tick.own : /\ i \in tick.young
                            /\ pot_entries[i].stackcoin_request_id \in tick.listed

\* C9: once the confirmation pass of a tick is over, every entry that was
\* flagged instant_win, less than 1 hour old and accepted on the ledger when
\* the tick began, and whose request id a poll of the tick listed, is
\* confirmed, and the entrant has been sent the pot and is its winner unless
\* that send failed or is still awaited.
C9_InstantWinPaid ==
    PassOver => \A i \in tick.iw :
                   pot_entries[i].stackcoin_request_id \in tick.listed
                   => /\ pot_entries[i].status = "confirmed"
                      /\ \/ pots[pot_entries[i].pot_id].winner_id = pot_entries[i].discord_id
                         \/ IsCurrent(pots[pot_entries[i].pot_id])

\* C10: an entry whose deny call the ledger answered by denying the request
\* is marked denied; the expiry pass fetches every entry that is unconfirmed
\* and more than 1 hour old; a denied entry stays denied, is not returned by
\* get_unconfirmed_entries and is never in the queue of a confirmation pass.
C10_ExpiredDenied ==
    /\ [](\A i \in tick.deny_ok : pot_entries[i].status = "denied")
    /\ [](\A i \in DOMAIN pot_entries :
             pot_entries[i].status = "denied"
             => /\ \A k \in DOMAIN get_unconfirmed_entries(pot_entries, now) :
                       get_unconfirmed_entries(pot_entries, now)[k].entry_id # i
                /\ tick.pc \in {"poll", "payout"} => i \notin Queued)
    /\ [][/\ (tick.pc # "deny" /\ tick'.pc = "deny")
             => \A i \in DOMAIN pot_entries' :
                    (/\ pot_entries'[i].status = "unconfirmed"
                     /\ pot_entries'[i].created_at < now' - ExpiryHours)
                    => \E k \in DOMAIN tick'.queue : tick'.queue[k].entry_id = i
          /\ \A i \in DOMAIN pot_entries :
                 pot_entries[i].status = "denied" => pot_entries'[i].status = "denied"]_vars

\* An entry more than 1 hour old was denied by an expiry pass, and a later
\* confirmation pass is polling.
C10_Witness ==
    /\ tick.pc = "poll"
    /\ \E i \in DOMAIN pot_entries :
           /\ pot_entries[i].status = "denied"
           /\ pot_entries[i].created_at < now - ExpiryHours
           /\ requests[int(pot_entries[i].stackcoin_request_id)] = "denied"

\* What get_pot_status is said to return for the guild of the last
\* pot-status reply, computed from the entries of the guild's current pot
\* whose status is in K: the total, the number of distinct users, one row
\* per user, and the rows by entry count descending, then amount descending.
PotStatusAgrees(K) ==
    (reply.kind = "pot_status" /\ reply.exists)
    => LET of_pot == {i \in DOMAIN pot_entries :
                         /\ pot_entries[i].pot_id \in CurrentPots(reply.guild_id)
                         /\ pot_entries[i].status \in K}
           of_user(u) == {i \in of_pot : pot_entries[i].discord_id = u}
           who == {pot_entries[i].discord_id : i \in of_pot}
           rows == reply.participants
       IN /\ reply.total_amount = SumOver(Amounts(pot_entries), of_pot)
          /\ reply.participant_count = Cardinality(who)
          /\ Len(rows) = Cardinality(who)
          /\ \A u \in who :
                 \E k \in DOMAIN rows :
                     /\ rows[k].discord_id = u
                     /\ rows[k].entry_count = Cardinality(of_user(u))
                     /\ rows[k].total_amount = SumOver(Amounts(pot_entries), of_user(u))
          /\ \A k \in DOMAIN rows :
                 \A m \in DOMAIN rows :
                     k < m => \/ rows[k].entry_count > rows[m].entry_count
                              \/ /\ rows[k].entry_count = rows[m].entry_count
                                 /\ rows[k].total_amount >= rows[m].total_amount

\* C11 as stated: get_pot_status aggregates the entries of the current pot
\* whose status is confirmed or instant_win.
C11_StatusOverConfirmedAndInstantWin == PotStatusAgrees({"confirmed", "instant_win"})

\* C11: get_pot_status aggregates the entries of the current pot whose
\* status is confirmed: total_amount is the sum of their amounts,
\* participant_count the number of distinct users, with one row per user
\* (entry count, summed amount) ordered by entry count descending, then
\* amount descending.
C11_StatusOverConfirmed == PotStatusAgrees({"confirmed"})

\* The reply for a pot in which one user has two confirmed entries and the
\* other user one: two rows, the user with two entries first.
C11_Witness ==
    /\ reply.kind = "pot_status"
    /\ reply.total_amount = 3 * EntryCost
    /\ reply.participant_count = 2
    /\ reply.participants[1].entry_count = 2
    /\ reply.participants[2].entry_count = 1

\* C12: can_user_enter_pot(user, guild, pot) is false if and only if some
\* entry of exactly that user, guild and pot has status confirmed or
\* unconfirmed and was created less than 6 hours before now.
C12_CooldownIff ==
    reply.kind = "cooldown"
    => (~reply.ok <=> \E i \in DOMAIN pot_entries :
                          /\ pot_entries[i].discord_id = reply.discord_id
                          /\ pot_entries[i].guild_id = reply.guild_id
                          /\ pot_entries[i].pot_id = reply.pot_id
                          /\ pot_entries[i].status \in Blocking
                          /\ now - pot_entries[i].created_at < CooldownHours)

\* The user may enter although the store holds, for that user and guild, a
\* denied entry of the pot, a confirmed entry of the pot that is exactly 6
\* hours old and a fresh confirmed entry in another pot of the guild.
C12_Witness ==
    /\ reply.kind = "cooldown"
    /\ reply.ok
    /\ \E i, j, k \in DOMAIN pot_entries :
           /\ \A x \in {i, j, k} : /\ pot_entries[x].discord_id = reply.discord_id
                                   /\ pot_entries[x].guild_id = reply.guild_id
           /\ pot_entries[i].pot_id = reply.pot_id
           /\ pot_entries[i].status = "confirmed"
           /\ now - pot_entries[i].created_at = CooldownHours
           /\ pot_entries[j].pot_id = reply.pot_id
           /\ pot_entries[j].status = "denied"
           /\ pot_entries[k].pot_id # reply.pot_id
           /\ pot_entries[k].status = "confirmed"
           /\ now - pot_entries[k].created_at < CooldownHours

\* C13: the steps of the end-to-end run end as stated.  An enter-pot for a
\* guild with no current pot creates the pot, and its entry, once the debit
\* request exists, is in that pot, for 5, unconfirmed unless the instant-win
\* roll hit; the poll made for an entry whose request the ledger holds
\* accepted makes it confirmed; a draw whose send succeeds while the store
\* holds one entry, confirmed, in a current pot, has sent 5 to that entry's
\* user and closes the pot with that winner, winning_amount 5 and
\* is_active false.
C13_EndToEnd ==
    [][/\ \A h \in BagToSet(enter') :
              (CopiesIn(h, enter') > CopiesIn(h, enter) /\ CurrentPots(h.guild_id) = {})
              => /\ pots' = Append(pots, OpenPot(h.guild_id))
                 /\ h.pot_id = Len(pots')
       /\ Len(pot_entries') > Len(pot_entries)
          => LET e == pot_entries'[Len(pot_entries')]
             IN /\ \E h \in BagToSet(enter) :
                       /\ CopiesIn(h, enter') < CopiesIn(h, enter)
                       /\ e.pot_id = h.pot_id
                       /\ e.discord_id = h.discord_id
                       /\ e.guild_id = h.guild_id
                /\ e.amount = EntryCost
                /\ e.status \in {"unconfirmed", "instant_win"}
                /\ requests'[int(e.stackcoin_request_id)] = "pending"
       /\ \A i \in tick'.own : i \notin tick.own => pot_entries'[i].status = "confirmed"
       /\ (/\ SendSucceeds("draw")
           /\ Len(pot_entries) = 1
           /\ pot_entries[1].status = "confirmed"
           /\ IsCurrent(pots[pot_entries[1].pot_id]))
          => /\ pots'[pot_entries[1].pot_id] =
                    [pots[pot_entries[1].pot_id] EXCEPT
                        !.winner_id = pot_entries[1].discord_id,
                        !.winning_amount = EntryCost,
                        !.won_at = Stamp, !.is_active = FALSE]
             /\ sends' = sends (+) SetToBag({[to |-> pot_entries[1].discord_id,
                                              amount |-> EntryCost,
                                              pot_id |-> pot_entries[1].pot_id,
                                              by |-> "draw"]})]_vars

\* The end of the run: one pot, one entry, confirmed, and the pot closed by
\* the draw with the entrant as winner of 5.
C13_Witness ==
    /\ Len(pots) = 1
    /\ Len(pot_entries) = 1
    /\ pot_entries[1].status = "confirmed"
    /\ pot_entries[1].pot_id = 1
    /\ pots[1] = WonPot(pot_entries[1].guild_id, pot_entries[1].discord_id)
    /\ sends = SetToBag({[to |-> pot_entries[1].discord_id, amount |-> EntryCost,
                          pot_id |-> 1, by |-> "draw"]})
    /\ draw = DrawIdle

\* C14: a pot row has winner_id set if and only if is_active is false, and
\* then won_at and winning_amount are set.
C14_ClosedIffWon ==
    \A i \in DOMAIN pots :
        /\ pots[i].winner_id # NULL <=> ~pots[i].is_active
        /\ pots[i].winner_id # NULL
           => /\ pots[i].won_at # NULL
              /\ pots[i].winning_amount >= EntryCost

\* A closed pot beside a current one.
C14_Witness ==
    \E i, j \in DOMAIN pots :
        /\ pots[i].winner_id # NULL
        /\ ~pots[i].is_active
        /\ IsCurrent(pots[j])

\* C15: a pot that has a winner is never written again, and an enter-pot
\* that gets as far as the debit request works on a pot of its guild that is
\* not closed and whose pot_id is larger than that of every closed pot of
\* the guild; a row added to pots is a fresh open pot after the others.
C15_ClosedPotKept ==
    [][/\ \A i \in DOMAIN pots : pots[i].winner_id # NULL => pots'[i] = pots[i]
       /\ \A h \in BagToSet(enter') :
              CopiesIn(h, enter') > CopiesIn(h, enter)
              => /\ IsCurrent(pots'[h.pot_id])
                 /\ pots'[h.pot_id].guild_id = h.guild_id
                 /\ \A i \in DOMAIN pots :
                        (pots[i].guild_id = h.guild_id /\ pots[i].winner_id # NULL)
                        => h.pot_id > i
       /\ pots' # pots /\ Len(pots') # Len(pots)
          => \E g \in Guilds : pots' = Append(pots, OpenPot(g))]_vars

\* Two pots of one guild closed one after the other, the first as it was
\* closed: a win_pot call ran while the guild had a closed pot, and an
\* enter-pot after the first win made the second pot.
C15_Witness ==
    \E i, j \in DOMAIN pots :
        /\ i < j
        /\ pots[i].guild_id = pots[j].guild_id
        /\ pots[i].winner_id # NULL
        /\ pots[j].winner_id # NULL
        /\ pots[i].winner_id # pots[j].winner_id

\* C16: win_pot, called (after a successful send) for a guild that has no
\* pot that is active and unwon, changes no pot row and no user row.
C16_WinPotNoOp ==
    [][\A p \in Payers :
           (SendSucceeds(p) /\ CurrentPots(pay[p].guild_id) = {})
           => pots' = pots /\ users' = users]_vars

\* What an /enter-pot made on a store left behind of that store: nothing.
StoreAsBefore ==
    /\ users = reply.users
    /\ pots = reply.pots
    /\ pot_entries = reply.pot_entries

\* The cooldown check of the /enter-pot in `reply` fails on the store it was
\* made on: the guild had a current pot, and in it a blocking entry of the
\* user younger than the cooldown.
CooldownActive ==
    /\ reply.kind = "enter_pot"
    /\ reply.lookup \in {"no_id", "found"}
    /\ \E q \in DOMAIN reply.pots :
           /\ reply.pots[q].guild_id = reply.guild_id
           /\ IsCurrent(reply.pots[q])
           /\ \E i \in DOMAIN reply.pot_entries :
                  /\ reply.pot_entries[i].discord_id = reply.discord_id
                  /\ reply.pot_entries[i].guild_id = reply.guild_id
                  /\ reply.pot_entries[i].pot_id = q
                  /\ reply.pot_entries[i].status \in Blocking
                  /\ now - reply.pot_entries[i].created_at < CooldownHours

\* The /enter-pot in `reply` got as far as the debit request, and the
\* request was not created: the invocation is over and the ledger holds the
\* requests it held.
RequestFailed ==
    /\ reply.kind = "enter_pot"
    /\ reply.lookup = "found"
    /\ ~CooldownActive
    /\ enter = EmptyBag
    /\ requests = reply.requests

\* C17: an /enter-pot whose account lookup fails or returns no user leaves
\* no user row, no pot row, no entry row and no debit request.
C17_UnresolvedCreatesNothing ==
    (reply.kind = "enter_pot" /\ reply.lookup \in {"failed", "none"})
    => /\ StoreAsBefore
       /\ requests = reply.requests
       /\ enter = EmptyBag

\* The rejected user had no row and the guild no current pot.
C17_Witness ==
    /\ reply.kind = "enter_pot"
    /\ reply.lookup \in {"failed", "none"}
    /\ ~reply.users[<<reply.discord_id, reply.guild_id>>].exists
    /\ get_current_pot(reply.pots, reply.guild_id) = 0

\* C18: an /enter-pot whose cooldown check fails makes no debit request and
\* inserts no entry; users, pots and entries are as before the invocation.
C18_CooldownCreatesNothing ==
    CooldownActive
    => /\ StoreAsBefore
       /\ requests = reply.requests
       /\ enter = EmptyBag

\* The check fails on an unconfirmed entry one hour short of the cooldown,
\* for a user whose account was found.
C18_Witness ==
    /\ CooldownActive
    /\ reply.lookup = "found"
    /\ \E i \in DOMAIN pot_entries :
           /\ pot_entries[i].discord_id = reply.discord_id
           /\ pot_entries[i].guild_id = reply.guild_id
           /\ pot_entries[i].status = "unconfirmed"
           /\ now - pot_entries[i].created_at = CooldownHours - 1
           /\ IsCurrent(pots[pot_entries[i].pot_id])

\* C19: an /enter-pot whose debit request is not created inserts no entry,
\* and the entry it inserts otherwise carries the id of the request the
\* ledger created for it: every entry's request id is one of the ledger's.
C19_EntryHasRequest ==
    /\ RequestFailed => pot_entries = reply.pot_entries
    /\ \A i \in DOMAIN pot_entries :
           /\ int(pot_entries[i].stackcoin_request_id) \in DOMAIN requests
           /\ (reply.kind = "enter_pot" /\ i > Len(reply.pot_entries))
              => /\ int(pot_entries[i].stackcoin_request_id) > Len(reply.requests)
                 /\ requests[int(pot_entries[i].stackcoin_request_id)] = "pending"

\* The request failed for a user who could enter.
C19_Witness ==
    /\ RequestFailed
    /\ Len(pot_entries) > 0

\* C20: an /enter-pot aborted because the debit request was not created
\* leaves users, pots and entries as they were before the invocation.
C20_FailedRequestLeavesNothing ==
    RequestFailed => StoreAsBefore

\* A step of an /enter-pot invocation: an invocation starts or ends waiting
\* for its debit request, or a user row, a pot row or an entry row is added.
AdmissionStep ==
    \/ enter' # enter
    \/ Len(pots') # Len(pots)
    \/ Len(pot_entries') # Len(pot_entries)
    \/ \E k \in UserKeys : users'[k].exists # users[k].exists

\* C21: no step of an /enter-pot invocation, instant win rolled or not,
\* sends funds, starts a payout, changes a pot's winner or a user's win
\* totals.
C21_AdmissionNeverPays ==
    [][AdmissionStep
       => /\ sends' = sends
          /\ pay' = pay
          /\ \A i \in DOMAIN pots : pots'[i] = pots[i]
          /\ \A k \in UserKeys : /\ users'[k].total_wins = users[k].total_wins
                                 /\ users'[k].total_winnings = users[k].total_winnings]_vars

\* An entry admitted with the instant-win roll, its invocation over, and
\* nothing paid and no pot closed.
C21_Witness ==
    /\ enter = EmptyBag
    /\ sends = EmptyBag
    /\ \E i \in DOMAIN pot_entries : /\ pot_entries[i].status = "instant_win"
                                     /\ IsCurrent(pots[pot_entries[i].pot_id])
    /\ \A i \in DOMAIN pots : IsCurrent(pots[i])

\* Payer p selects a winner in this step: it leaves the step awaiting the
\* send of a payout it was not awaiting before.
Selects(p) == pay'[p].pc = "send" /\ pay'[p] # pay[p]

\* C22: whenever a draw path selects a winner, the guild has a current pot,
\* the winner holds a confirmed entry in it and the amount is not zero; and
\* whenever funds are sent, the receiver holds a confirmed entry in the pot
\* the payer read.
C22_DrawsOnConfirmed ==
    [][\A p \in Payers :
           /\ Selects(p)
              => /\ pay'[p].pot_id \in DOMAIN pots'
                 /\ IsCurrent(pots'[pay'[p].pot_id])
                 /\ pots'[pay'[p].pot_id].guild_id = pay'[p].guild_id
                 /\ pay'[p].winning_amount >= EntryCost
                 /\ \E i \in DOMAIN pot_entries' :
                        /\ pot_entries'[i].pot_id = pay'[p].pot_id
                        /\ pot_entries'[i].discord_id = pay'[p].winner_id
                        /\ pot_entries'[i].status = "confirmed"
           /\ SendSucceeds(p)
              => \E i \in DOMAIN pot_entries :
                     /\ pot_entries[i].pot_id = pay[p].pot_id
                     /\ pot_entries[i].discord_id = pay[p].winner_id
                     /\ pot_entries[i].status = "confirmed"]_vars

\* A draw path awaits its send in a pot that also holds an entry that is
\* not confirmed.
C22_Witness ==
    \E p \in {"draw", "force"} :
        /\ pay[p].pc = "send"
        /\ \E i \in DOMAIN pot_entries : /\ pot_entries[i].pot_id = pay[p].pot_id
                                         /\ pot_entries[i].status # "confirmed"

\* The deny call made for the entry at the head of the expiry queue returns
\* in this step, and the ledger has not denied the request: the call failed.
DenyFails ==
    /\ tick.pc = "deny"
    /\ tick' # tick
    /\ requests' = requests

\* C23: when the deny call for an expired entry fails, the entry stays
\* unconfirmed, and is therefore among get_expired_entries afterwards.
C23_FailedDenyRetried ==
    [][DenyFails
       => /\ pot_entries'[Head(tick.queue).entry_id].status = "unconfirmed"
          /\ \E k \in DOMAIN get_expired_entries(pot_entries', now') :
                 get_expired_entries(pot_entries', now')[k].entry_id =
                     Head(tick.queue).entry_id]_vars

\* C24: whatever the call made for the entry at the head of the tick's queue
\* returns, the pass goes on with the entry after it: after a poll, with the
\* next poll or, at the end of the list, with the expiry pass over all
\* expired entries; after a deny call, with the next deny call.  A poll
\* changes the status of its own entry only, and only to confirmed; a deny
\* call changes the status of its own entry only.
C24_FailureIsolated ==
    [][(tick.pc \in {"poll", "deny"} /\ tick' # tick)
       => LET head == Head(tick.queue).entry_id
          IN /\ \A i \in DOMAIN pot_entries :
                    i # head => pot_entries'[i] = pot_entries[i]
             /\ pot_entries'[head].status # pot_entries[head].status
                => pot_entries'[head].status =
                       IF tick.pc = "poll" THEN "confirmed" ELSE "denied"
             /\ Tail(tick.queue) # <<>>
                => tick'.pc = tick.pc /\ tick'.queue = Tail(tick.queue)
             /\ (Tail(tick.queue) = <<>> /\ tick.pc = "poll")
                => IF get_expired_entries(pot_entries', now) = <<>>
                   THEN tick'.pc = "sleep"
                   ELSE /\ tick'.pc = "deny"
                        /\ tick'.queue = get_expired_entries(pot_entries', now)
             /\ (Tail(tick.queue) = <<>> /\ tick.pc = "deny") => tick'.pc = "sleep"]_vars

\* The expiry pass is at its second entry and the first, fetched and handled
\* before it, is still unconfirmed: its deny call raised.
C24_Witness ==
    /\ tick.pc = "deny"
    /\ Head(tick.queue).entry_id = 2
    /\ pot_entries[1].status = "unconfirmed"
    /\ pot_entries[1].created_at <= now - ExpiryHours

\* C25: a step that raises for one guild of a daily draw does not keep the
\* run from the guilds after it: when the run is over, no guild of its list
\* is left unprocessed.
C25_GuildFailureIsolated ==
    (reply.kind = "daily_draw" /\ draw.pc = "idle") => draw.queue = <<>>

\* The entry ids a query returns.
IdsOf(rows) == {rows[k].entry_id : k \in DOMAIN rows}

\* C26: at any instant get_unconfirmed_entries returns the unconfirmed
\* entries created less than 1 hour ago and get_expired_entries those
\* created 1 hour ago or more, each once: the two results are disjoint,
\* together they are all unconfirmed entries, and no entry of another
\* status is in either.
C26_WindowsPartition ==
    LET young == get_unconfirmed_entries(pot_entries, now)
        expired == get_expired_entries(pot_entries, now)
        unconfirmed == {i \in DOMAIN pot_entries : pot_entries[i].status = "unconfirmed"}
    IN /\ IdsOf(young) \cap IdsOf(expired) = {}
       /\ IdsOf(young) \cup IdsOf(expired) = unconfirmed
       /\ Cardinality(IdsOf(young)) = Len(young)
       /\ Cardinality(IdsOf(expired)) = Len(expired)
       /\ \A i \in unconfirmed :
              i \in IdsOf(young) <=> now - pot_entries[i].created_at < ExpiryHours

\* An unconfirmed entry exactly 1 hour old beside a younger one.
C26_Witness ==
    /\ \E i, j \in DOMAIN pot_entries :
           /\ pot_entries[i].status = "unconfirmed"
           /\ pot_entries[j].status = "unconfirmed"
           /\ now - pot_entries[i].created_at = ExpiryHours
           /\ now - pot_entries[j].created_at < ExpiryHours
    /\ IdsOf(get_expired_entries(pot_entries, now)) # {}
    /\ IdsOf(get_unconfirmed_entries(pot_entries, now)) # {}

\* The confirmed entries user u holds in the current pot of the guild.
ConfirmedIn(guild_id, u) ==
    {i \in DOMAIN pot_entries :
        /\ get_current_pot(pots, guild_id) # 0
        /\ pot_entries[i].pot_id = get_current_pot(pots, guild_id)
        /\ pot_entries[i].discord_id = u
        /\ pot_entries[i].status = "confirmed"}

\* C27: for every guild, the list the winner is chosen from holds each
\* user's id as many times as the user has confirmed entries in the current
\* pot: its size is the number of confirmed entries of the pot, the ids
\* that can be chosen are those of the users with a confirmed entry, and
\* the winner a daily draw is sending to is one of those.
C27_WeightedByConfirmed ==
    /\ \A g \in Guilds :
           LET wp == weighted_participants(
                         get_active_pot_participants(pots, pot_entries, g))
           IN /\ \A u \in Users :
                     Cardinality(ConfirmedIn(g, u)) = IF u \in DOMAIN wp THEN wp[u] ELSE 0
              /\ BagCardinality(wp) =
                     Cardinality(UNION {ConfirmedIn(g, u) : u \in Users})
              /\ Drawable(get_active_pot_participants(pots, pot_entries, g)) =
                     {u \in Users : ConfirmedIn(g, u) # {}}
    /\ pay["draw"].pc = "send"
       => \E i \in DOMAIN pot_entries : /\ pot_entries[i].pot_id = pay["draw"].pot_id
                                        /\ pot_entries[i].discord_id = pay["draw"].winner_id
                                        /\ pot_entries[i].status = "confirmed"

\* The draw is sending to the user with one confirmed entry in a pot in
\* which the other user has two.
C27_Witness ==
    /\ pay["draw"].pc = "send"
    /\ Cardinality(ConfirmedIn(pay["draw"].guild_id, pay["draw"].winner_id)) = 1
    /\ \E u \in Users : Cardinality(ConfirmedIn(pay["draw"].guild_id, u)) = 2

\* C28: the status of an existing entry changes only in a step of the
\* reconciliation loop, the return of the poll or of the deny call made for
\* that entry; every other step (enter-pot, the daily draw, force-end-pot)
\* keeps every existing row as it is and at most appends one.
C28_OnlyTickChangesStatus ==
    [][/\ Len(pot_entries') >= Len(pot_entries)
       /\ \A i \in DOMAIN pot_entries :
              pot_entries'[i].status # pot_entries[i].status
              => /\ tick.pc \in {"poll", "deny"}
                 /\ tick' # tick
                 /\ Head(tick.queue).entry_id = i
       /\ (tick' = tick \/ tick.pc \notin {"poll", "deny"})
          => SubSeq(pot_entries', 1, Len(pot_entries)) = pot_entries]_vars

\* A pot was closed by a draw over a confirmed entry and a second entry was
\* admitted since.
C28_Witness ==
    /\ sends # EmptyBag
    /\ Len(pot_entries) = 2
    /\ pot_entries[1].status = "confirmed"
    /\ pot_entries[2].status \in {"unconfirmed", "instant_win"}
    /\ ~IsCurrent(pots[pot_entries[1].pot_id])

\* The first page among 1..total_pages whose call does not return a page
\* with requests, or total_pages + 1 when all do.
FirstStop(pages, total_pages) ==
    IF \E p \in 1..total_pages : pages[p].kind # "page" \/ pages[p].requests = <<>>
    THEN CHOOSE p \in 1..total_pages :
             /\ pages[p].kind # "page" \/ pages[p].requests = <<>>
             /\ \A q \in 1..(p - 1) : pages[q].kind = "page" /\ pages[q].requests # <<>>
    ELSE total_pages + 1

RECURSIVE PagesUpTo(_, _)
\* The requests of pages 1..n, in page order.
PagesUpTo(pages, n) ==
    IF n = 0 THEN <<>> ELSE PagesUpTo(pages, n - 1) \o pages[n].requests

\* C29: against a ledger that reports total_pages, get_accepted_requests
\* requests the pages 1, 2, ... once each and in order, never more than
\* total_pages of them, and when it returns it has stopped at the first page
\* that raised, was malformed or empty, or else after page total_pages; it
\* returns the requests of the pages before the stop in page order, or the
\* empty list when the call it stopped at raised.
C29_Pagination ==
    (reply.kind = "get_accepted_requests" /\ reply.pagination = "set")
    => LET stop == FirstStop(reply.pages, reply.total_pages)
       IN /\ reply.calls = [k \in 1..Len(reply.calls) |-> k]
          /\ Len(reply.calls) <= reply.total_pages
          /\ Len(reply.calls) <= stop
          /\ reply.pc = "done"
             => /\ Len(reply.calls) = IF stop > reply.total_pages
                                      THEN reply.total_pages ELSE stop
                /\ reply.result =
                       IF stop <= reply.total_pages /\ reply.pages[stop].kind = "raises"
                       THEN <<>>
                       ELSE PagesUpTo(reply.pages, stop - 1)

\* The call collected page 1, page 2 raised, and it returned the empty list.
C29_Witness ==
    /\ reply.kind = "get_accepted_requests"
    /\ reply.pagination = "set"
    /\ reply.pc = "done"
    /\ reply.calls = <<1, 2>>
    /\ reply.all_requests # <<>>
    /\ reply.pages[2].kind = "raises"
    /\ reply.result = <<>>

\* C30: no step marks an entry denied whose debit request the ledger holds
\* accepted.
C30_AcceptedNeverDenied ==
    [][\A i \in DOMAIN pot_entries :
           (pot_entries'[i].status = "denied" /\ pot_entries[i].status # "denied")
           => requests[int(pot_entries[i].stackcoin_request_id)] # "accepted"]_vars

\* C31: an entry becomes confirmed only in a pot that is active and has no
\* winner.
C31_ConfirmedInOpenPot ==
    [][\A i \in DOMAIN pot_entries :
           (pot_entries'[i].status = "confirmed" /\ pot_entries[i].status # "confirmed")
           => IsCurrent(pots[pot_entries[i].pot_id])]_vars

\* C32: an entry is inserted only into a pot that is active and has no
\* winner at the moment of the insert.
C32_InsertedInOpenPot ==
    [][Len(pot_entries') > Len(pot_entries)
       => IsCurrent(pots'[pot_entries'[Len(pot_entries')].pot_id])]_vars

\* C33: for each user and guild, total_wins is the number of closed pots of
\* the guild whose winner is the user, and total_winnings the sum of their
\* winning amounts.
C33_WinTotalsAgree ==
    \A k \in UserKeys :
        LET won == {i \in DOMAIN pots : /\ pots[i].guild_id = k[2]
                                        /\ pots[i].winner_id = k[1]}
        IN /\ users[k].total_wins = Cardinality(won)
           /\ users[k].total_winnings =
                  SumOver([i \in DOMAIN pots |-> pots[i].winning_amount], won)

\* C34: every entry, created unconfirmed or flagged instant_win, eventually
\* has status confirmed or denied.  (Entries created before the last hour of
\* the clock: the others cannot become 1 hour old.)
C34_EveryEntryResolved ==
    \A i \in 1..MaxEntries :
        [](( /\ i \in DOMAIN pot_entries
             /\ pot_entries[i].created_at < MaxTime)
           => <>(/\ i \in DOMAIN pot_entries
                 /\ pot_entries[i].status \in {"confirmed", "denied"}))

=============================================================================
